---- MODULE Spec2Model ----
(***************************************************************************)
(* The AmityBot admin client: page components that call a fixed set of    *)
(* HTTP endpoints of an external backend.  A behaviour follows ONE mounted *)
(* page component (page, fixed by Init): its React state, the async        *)
(* handler invocations it has started (tasks: one entry per invocation,    *)
(* with the values its closure captured and its position), the requests    *)
(* those invocations put on the network (net, with the backend's answer    *)
(* once it has arrived), the toasts shown and the router calls made.       *)
(*                                                                         *)
(* JavaScript runs each handler to its next await without interleaving,    *)
(* so one action is the code between two awaits.  A fetch and the          *)
(* res.json() that follows it touch no component state in between; the     *)
(* backend's answer (network error | status, body) is therefore delivered  *)
(* in one step and the handler's continuation is one action.               *)
(*                                                                         *)
(* A router call (router.push / router.replace) is recorded in navs; the    *)
(* router commits a navigation asynchronously, so the component stays       *)
(* mounted and its handlers stay reachable after the call.                  *)
(*                                                                         *)
(* A string that the code inspects character by character (the chat query, *)
(* trimmed by handleSend) is a sequence of symbols; other strings are      *)
(* opaque TLA+ strings.                                                    *)
(*                                                                         *)
(* The server route /api/chat (POST of app/api/chat/route.ts) shares no    *)
(* state with the pages; it is followed by its own specification,          *)
(* SpecRoute, whose behaviours are invocations of POST on request bodies    *)
(* and the completions the Groq client hands back.                          *)
(***************************************************************************)
EXTENDS Naturals, Sequences, FiniteSets

VARIABLES
    page,       \* the mounted page component
    tasks,      \* handler invocations: [handler, pc, env]
    net,        \* requests issued: [endpoint, method, task, body, resp, after, order]
    toasts,     \* sonner toasts shown: [level, text, task]
    navs,       \* router calls made: [how, to, task]
    query,      \* ChatPage: useState("")
    messages,   \* ChatPage: useState([])
    sessionId,  \* ChatPage: useState(() => uuidv4())
    history,    \* ChatPage: useState([])
    username,   \* LoginPage: useState('')
    password,   \* LoginPage: useState('')
    file,       \* KBUploadPage: useState(null)
    loading,    \* KBUploadPage: useState(true)
    role,       \* KBUploadPage / DashboardLayout / DashboardHome: role state
    rows,       \* LeadsPage leads / SyncLogsPage logs: useState([])
    route       \* /api/chat: invocations of POST: [body, pc, forwarded, completion, responses]

vars == <<page, tasks, net, toasts, navs, query, messages, sessionId, history,
          username, password, file, loading, role, rows, route>>

clientVars == <<page, tasks, net, toasts, navs, query, messages, sessionId,
                history, username, password, file, loading, role, rows>>

chatVars  == <<query, messages, sessionId, history>>
loginVars == <<username, password>>
kbVars    == <<file, loading>>

----------------------------------------------------------------------------
(* Bounds and input sets *)

\* handler invocations started by the user in one behaviour (mount effects
\* are not counted: each runs once)
MaxTasks == 2

Pages == {"ChatPage", "LoginPage", "KBUploadPage", "DashboardLayout",
          "DashboardHome", "LeadsPage", "SyncLogsPage"}

GatedPages == {"KBUploadPage", "DashboardLayout", "DashboardHome"}

\* what the user may type into the chat box
QueryInputs == {<< >>, <<" ">>, <<"a">>, <<"b", " ">>}

SessionIds == {"uuid-1"}
Results    == {<<"r1">>, <<"r2">>}
Usernames  == {"", "admin"}
Passwords  == {"", "secret"}
Files      == {"f1", "f2"}
NoFile     == "null"
NoRole     == "null"

----------------------------------------------------------------------------
(* The backend's answers *)

Pending == [kind |-> "pending", ok |-> FALSE, json |-> "invalid", data |-> ""]
NetErr  == [kind |-> "neterr",  ok |-> FALSE, json |-> "invalid", data |-> ""]
Http(ok, json, data) == [kind |-> "http", ok |-> ok, json |-> json, data |-> data]

\* the field of the JSON body that the caller of each endpoint reads
Data(endpoint) ==
    CASE endpoint = "/chat"          -> Results
      [] endpoint = "/check-session" -> {"logged_in", "general"}
      [] endpoint = "/login"         -> {"", "Invalid credentials"}
      [] endpoint = "/kb-upload"     -> {"", "Unsupported file"}
      [] endpoint = "/leads"         -> {"none", "some"}
      [] endpoint = "/sync-logs"     -> {"none", "some"}
      [] OTHER                       -> {""}

\* whether the caller of the endpoint parses the body of an answer with
\* this res.ok: sendChat only after res.ok, handleLogin and handleUpload
\* only after !res.ok, handleReindex and handleLogout never, the others
\* whatever the status (KBUploadPage.fetchSession, the list pages)
BodyRead(endpoint, ok) ==
    CASE endpoint = "/chat"                     -> ok
      [] endpoint \in {"/login", "/kb-upload"}  -> ~ok
      [] endpoint \in {"/reindex", "/logout"}   -> FALSE
      [] OTHER                                  -> TRUE

\* how a body that is not an object parses.  JSON null is drawn only where
\* the caller treats it differently from a body that is not JSON (`data ||
\* []` of the list pages; everywhere else both end in the same throw)
JsonKinds(endpoint) ==
    IF endpoint \in {"/leads", "/sync-logs"} THEN {"invalid", "null"}
                                             ELSE {"invalid"}

\* a rejected fetch, or a status with a body; a body the caller never
\* parses is drawn once ("unread")
Responses(endpoint) ==
    {NetErr}
    \cup {Http(ok, "unread", "") : ok \in {o \in BOOLEAN : ~BodyRead(endpoint, o)}}
    \cup {Http(ok, j, "") :
            ok \in {o \in BOOLEAN : BodyRead(endpoint, o)}, j \in JsonKinds(endpoint)}
    \cup {Http(ok, "object", d) :
            ok \in {o \in BOOLEAN : BodyRead(endpoint, o)}, d \in Data(endpoint)}

\* a 2xx answer whose body parsed to an object
Success(resp) == resp.kind = "http" /\ resp.ok /\ resp.json = "object"

\* a non-2xx answer or a rejected fetch
Failed(resp) == resp.kind = "neterr" \/ (resp.kind = "http" /\ ~resp.ok)

\* `await res.json()` rejects
JsonThrows(resp) == resp.json = "invalid"
\* `data.field` throws a TypeError (data is null)
FieldThrows(resp) == resp.json = "null"

----------------------------------------------------------------------------
(* Helpers over the logs *)

Task(handler, pc, env) == [handler |-> handler, pc |-> pc, env |-> env]
NoEnv == [none |-> TRUE]

\* the requests that have been answered (or have failed on the network)
Answered == {n \in 1..Len(net) : net[n].resp.kind # "pending"}

\* the order of the answers is logged for /chat, the one endpoint whose
\* caller keeps state (history) that depends on it
Stamped(endpoint) == endpoint = "/chat"

\* a request; a stamped one carries the number of answers that had arrived
\* when it was issued, and its answer its place among the answers
Request(endpoint, method, task, body) ==
    [endpoint |-> endpoint, method |-> method, task |-> task, body |-> body,
     resp |-> Pending,
     after |-> IF Stamped(endpoint) THEN Cardinality(Answered) ELSE 0,
     order |-> 0]

Toast(level, text, task) == [level |-> level, text |-> text, task |-> task]
Nav(how, to, task) == [how |-> how, to |-> to, task |-> task]

UserTasks == {t \in 1..Len(tasks) : tasks[t].handler \notin {"fetchSession", "checkSession", "effect"}}
CanClick == Cardinality(UserTasks) < MaxTasks

\* task t is waiting for the answer to request n
Awaited(t, n) == net[n].task = t /\ net[n].resp.kind = "pending"

Finish(t, pc) == [tasks EXCEPT ![t].pc = pc]
Answer(n, resp) ==
    [net EXCEPT ![n].resp = resp,
                ![n].order = IF Stamped(net[n].endpoint)
                             THEN Cardinality(Answered) + 1 ELSE 0]

----------------------------------------------------------------------------
(* String.prototype.trim on a sequence of symbols *)

IsWhitespace(c) == c \in {" ", "\t", "\n"}

RECURSIVE TrimStart(_)
TrimStart(s) ==
    IF s # << >> /\ IsWhitespace(Head(s)) THEN TrimStart(Tail(s)) ELSE s

RECURSIVE TrimEnd(_)
TrimEnd(s) ==
    IF s # << >> /\ IsWhitespace(s[Len(s)])
    THEN TrimEnd(SubSeq(s, 1, Len(s) - 1)) ELSE s

trim(s) == TrimEnd(TrimStart(s))

----------------------------------------------------------------------------
(* ChatPage *)

\* onChange={(e) => setQuery(e.target.value)}
setQuery(q) ==
    /\ page = "ChatPage"
    /\ query # q
    /\ query' = q
    /\ UNCHANGED <<route, page, tasks, net, toasts, navs, messages, sessionId, history,
                   username, password, file, loading, role, rows>>

\* sendChat up to its fetch: the body of the POST
sendChat(q, session_id, chat_history, r) ==
    [query |-> q, session_id |-> session_id, chat_history |-> chat_history,
     role |-> r]

\* sendChat after its fetch: it throws on a rejected fetch, on !res.ok and
\* on a body that does not parse; otherwise it returns the parsed body
sendChatThrows(resp) == resp.kind = "neterr" \/ ~resp.ok \/ JsonThrows(resp)

\* handleSend that tests `!query` instead of `!query.trim()`
handleSend_NoTrim ==
    /\ page = "ChatPage"
    /\ CanClick
    /\ LET t == Len(tasks) + 1 IN
       IF query = << >>
       THEN /\ tasks' = Append(tasks, Task("handleSend", "done", NoEnv))
            /\ UNCHANGED <<net, messages>>
       ELSE /\ tasks' = Append(tasks, Task("handleSend", "await",
                                [query |-> query, history |-> history]))
            /\ messages' = Append(messages, [role |-> "user", content |-> query])
            /\ net' = Append(net, Request("/chat", "POST", t,
                                sendChat(query, sessionId, history, "general")))
    /\ UNCHANGED <<route, page, toasts, navs, query, sessionId, history,
                   username, password, file, loading, role, rows>>

\* handleSend, from the click to `await sendChat(...)`
handleSend ==
    /\ page = "ChatPage"
    /\ CanClick
    /\ LET t == Len(tasks) + 1 IN
       IF trim(query) = << >>
       THEN /\ tasks' = Append(tasks, Task("handleSend", "done", NoEnv))
            /\ UNCHANGED <<net, messages>>
       ELSE /\ tasks' = Append(tasks, Task("handleSend", "await",
                                [query |-> query, history |-> history]))
            /\ messages' = Append(messages, [role |-> "user", content |-> query])
            /\ net' = Append(net, Request("/chat", "POST", t,
                                sendChat(query, sessionId, history, "general")))
    /\ UNCHANGED <<route, page, toasts, navs, query, sessionId, history,
                   username, password, file, loading, role, rows>>

ErrorFromServer == <<"Error from server.">>

\* handleSendResume with setHistory([...history, pair]): the history the
\* closure captured at the click instead of the functional update
handleSendResume_StaleHistory(t, n, resp) ==
    /\ page = "ChatPage"
    /\ tasks[t].handler = "handleSend"
    /\ Awaited(t, n)
    /\ net' = Answer(n, resp)
    /\ tasks' = Finish(t, "done")
    /\ IF sendChatThrows(resp) \/ FieldThrows(resp)
       THEN /\ messages' = Append(messages, [role |-> "bot", content |-> ErrorFromServer])
            /\ UNCHANGED history
       ELSE /\ messages' = Append(messages, [role |-> "bot", content |-> resp.data])
            /\ history' = Append(tasks[t].env.history, <<tasks[t].env.query, resp.data>>)
    /\ query' = << >>
    /\ UNCHANGED <<route, page, toasts, navs, sessionId,
                   username, password, file, loading, role, rows>>

\* handleSendResume with setHistory((prev) => [pair, ...prev])
handleSendResume_Prepend(t, n, resp) ==
    /\ page = "ChatPage"
    /\ tasks[t].handler = "handleSend"
    /\ Awaited(t, n)
    /\ net' = Answer(n, resp)
    /\ tasks' = Finish(t, "done")
    /\ IF sendChatThrows(resp) \/ FieldThrows(resp)
       THEN /\ messages' = Append(messages, [role |-> "bot", content |-> ErrorFromServer])
            /\ UNCHANGED history
       ELSE /\ messages' = Append(messages, [role |-> "bot", content |-> resp.data])
            /\ history' = <<(<<tasks[t].env.query, resp.data>>)>> \o history
    /\ query' = << >>
    /\ UNCHANGED <<route, page, toasts, navs, sessionId,
                   username, password, file, loading, role, rows>>

\* handleSendResume whose catch also records the failed exchange
handleSendResume_FailToHistory(t, n, resp) ==
    /\ page = "ChatPage"
    /\ tasks[t].handler = "handleSend"
    /\ Awaited(t, n)
    /\ net' = Answer(n, resp)
    /\ tasks' = Finish(t, "done")
    /\ IF sendChatThrows(resp) \/ FieldThrows(resp)
       THEN /\ messages' = Append(messages, [role |-> "bot", content |-> ErrorFromServer])
            /\ history' = Append(history, <<tasks[t].env.query, ErrorFromServer>>)
       ELSE /\ messages' = Append(messages, [role |-> "bot", content |-> resp.data])
            /\ history' = Append(history, <<tasks[t].env.query, resp.data>>)
    /\ query' = << >>
    /\ UNCHANGED <<route, page, toasts, navs, sessionId,
                   username, password, file, loading, role, rows>>

\* handleSendResume without the try/catch: a throw of sendChat ends the handler
handleSendResume_NoCatch(t, n, resp) ==
    /\ page = "ChatPage"
    /\ tasks[t].handler = "handleSend"
    /\ Awaited(t, n)
    /\ net' = Answer(n, resp)
    /\ IF sendChatThrows(resp) \/ FieldThrows(resp)
       THEN /\ tasks' = Finish(t, "uncaught")
            /\ UNCHANGED <<messages, history, query>>
       ELSE /\ tasks' = Finish(t, "done")
            /\ messages' = Append(messages, [role |-> "bot", content |-> resp.data])
            /\ history' = Append(history, <<tasks[t].env.query, resp.data>>)
            /\ query' = << >>
    /\ UNCHANGED <<route, page, toasts, navs, sessionId,
                   username, password, file, loading, role, rows>>

\* handleSend, from the settling of `await sendChat(...)` to its end
handleSendResume(t, n, resp) ==
    /\ page = "ChatPage"
    /\ tasks[t].handler = "handleSend"
    /\ Awaited(t, n)
    /\ net' = Answer(n, resp)
    /\ tasks' = Finish(t, "done")
    /\ IF sendChatThrows(resp) \/ FieldThrows(resp)
       THEN /\ messages' = Append(messages, [role |-> "bot", content |-> ErrorFromServer])
            /\ UNCHANGED history
       ELSE /\ messages' = Append(messages, [role |-> "bot", content |-> resp.data])
            /\ history' = Append(history, <<tasks[t].env.query, resp.data>>)
    /\ query' = << >>
    /\ UNCHANGED <<route, page, toasts, navs, sessionId,
                   username, password, file, loading, role, rows>>

chatSettles ==
    \E n \in 1..Len(net) : LET t == net[n].task IN
        \E resp \in Responses("/chat") : handleSendResume(t, n, resp)

----------------------------------------------------------------------------
(* LoginPage *)

\* onChange={(e) => setUsername(e.target.value)}
setUsername(u) ==
    /\ page = "LoginPage"
    /\ username # u
    /\ username' = u
    /\ UNCHANGED <<route, page, tasks, net, toasts, navs, chatVars, password, kbVars, role, rows>>

\* onChange={(e) => setPassword(e.target.value)}
setPassword(p) ==
    /\ page = "LoginPage"
    /\ password # p
    /\ password' = p
    /\ UNCHANGED <<route, page, tasks, net, toasts, navs, chatVars, username, kbVars, role, rows>>

\* handleLogin, from the click to `await fetch(.../login)`
handleLogin ==
    /\ page = "LoginPage"
    /\ CanClick
    /\ LET t == Len(tasks) + 1 IN
       IF username = "" \/ password = ""
       THEN /\ tasks' = Append(tasks, Task("handleLogin", "done", NoEnv))
            /\ toasts' = Append(toasts, Toast("error", "Please enter username and password", t))
            /\ UNCHANGED net
       ELSE /\ tasks' = Append(tasks, Task("handleLogin", "await", NoEnv))
            /\ net' = Append(net, Request("/login", "POST", t,
                                [username |-> username, password |-> password]))
            /\ UNCHANGED toasts
    /\ UNCHANGED <<route, page, navs, chatVars, loginVars, kbVars, role, rows>>

\* handleLoginResume that posts the credentials again after a failure
handleLoginResume_Retry(t, n, resp) ==
    /\ page = "LoginPage"
    /\ tasks[t].handler = "handleLogin"
    /\ Awaited(t, n)
    /\ IF Failed(resp)
       THEN /\ net' = Append(Answer(n, resp),
                        Request("/login", "POST", t, net[n].body))
            /\ UNCHANGED <<tasks, toasts, navs>>
       ELSE /\ net' = Answer(n, resp)
            /\ tasks' = Finish(t, "done")
            /\ toasts' = Append(toasts, Toast("success", "Login successful", t))
            /\ navs' = Append(navs, Nav("replace", "/dashboard/kb-upload", t))
    /\ UNCHANGED <<route, page, chatVars, loginVars, kbVars, role, rows>>

\* handleLoginResume that never looks at res.ok
handleLoginResume_IgnoresOk(t, n, resp) ==
    /\ page = "LoginPage"
    /\ tasks[t].handler = "handleLogin"
    /\ Awaited(t, n)
    /\ net' = Answer(n, resp)
    /\ tasks' = Finish(t, "done")
    /\ IF resp.kind = "neterr"
       THEN /\ toasts' = Append(toasts, Toast("error", "Something went wrong", t))
            /\ UNCHANGED navs
       ELSE /\ toasts' = Append(toasts, Toast("success", "Login successful", t))
            /\ navs' = Append(navs, Nav("replace", "/dashboard/kb-upload", t))
    /\ UNCHANGED <<route, page, chatVars, loginVars, kbVars, role, rows>>

\* handleLogin, from the settling of the fetch to its end (all inside try)
handleLoginResume(t, n, resp) ==
    /\ page = "LoginPage"
    /\ tasks[t].handler = "handleLogin"
    /\ Awaited(t, n)
    /\ net' = Answer(n, resp)
    /\ tasks' = Finish(t, "done")
    /\ IF resp.kind = "neterr"
       THEN /\ toasts' = Append(toasts, Toast("error", "Something went wrong", t))
            /\ UNCHANGED navs
       ELSE IF resp.ok
       THEN /\ toasts' = Append(toasts, Toast("success", "Login successful", t))
            /\ navs' = Append(navs, Nav("replace", "/dashboard/kb-upload", t))
       ELSE IF JsonThrows(resp) \/ FieldThrows(resp)
       THEN /\ toasts' = Append(toasts, Toast("error", "Something went wrong", t))
            /\ UNCHANGED navs
       ELSE /\ toasts' = Append(toasts, Toast("error",
                            IF resp.data # "" THEN resp.data ELSE "Login failed", t))
            /\ UNCHANGED navs
    /\ UNCHANGED <<route, page, chatVars, loginVars, kbVars, role, rows>>

loginSettles ==
    \E n \in 1..Len(net) : LET t == net[n].task IN
        \E resp \in Responses("/login") : handleLoginResume(t, n, resp)

----------------------------------------------------------------------------
(* KBUploadPage *)

Mounted(handler) == \E t \in 1..Len(tasks) : tasks[t].handler = handler

\* useEffect: fetchSession, up to `await fetch(.../check-session)`
fetchSession ==
    /\ page = "KBUploadPage"
    /\ ~Mounted("fetchSession")
    /\ tasks' = Append(tasks, Task("fetchSession", "await", NoEnv))
    /\ net' = Append(net, Request("/check-session", "GET", Len(tasks) + 1, NoEnv))
    /\ UNCHANGED <<route, page, toasts, navs, chatVars, loginVars, kbVars, role, rows>>

\* fetchSession, from the settling of the fetch to its end (try/catch/finally)
fetchSessionResume(t, n, resp) ==
    /\ page = "KBUploadPage"
    /\ tasks[t].handler = "fetchSession"
    /\ Awaited(t, n)
    /\ net' = Answer(n, resp)
    /\ tasks' = Finish(t, "done")
    /\ IF resp.kind = "neterr" \/ JsonThrows(resp) \/ FieldThrows(resp)
       THEN /\ navs' = Append(navs, Nav("replace", "/login", t))
            /\ UNCHANGED role
       ELSE IF resp.data # "logged_in"
       THEN /\ navs' = Append(navs, Nav("replace", "/login", t))
            /\ UNCHANGED role
       ELSE /\ role' = "logged_in"
            /\ UNCHANGED navs
    /\ loading' = FALSE
    /\ UNCHANGED <<route, page, toasts, chatVars, loginVars, file, rows>>

\* what KBUploadPage returns: the placeholder while loading, else the form
KBUploadPageRender == IF loading THEN "placeholder" ELSE "content"

\* onChange of the file input: setFile(e.target.files?.[0] || null)
setFile(f) ==
    /\ page = "KBUploadPage"
    /\ KBUploadPageRender = "content"
    /\ file # f
    /\ file' = f
    /\ UNCHANGED <<route, page, tasks, net, toasts, navs, chatVars, loginVars, loading, role, rows>>

\* handleUpload, from the click to `await fetch(.../kb-upload)`
handleUpload ==
    /\ page = "KBUploadPage"
    /\ KBUploadPageRender = "content"
    /\ CanClick
    /\ LET t == Len(tasks) + 1 IN
       IF file = NoFile
       THEN /\ tasks' = Append(tasks, Task("handleUpload", "done", NoEnv))
            /\ toasts' = Append(toasts, Toast("error", "Please select a file first.", t))
            /\ UNCHANGED net
       ELSE /\ tasks' = Append(tasks, Task("handleUpload", "await", NoEnv))
            /\ net' = Append(net, Request("/kb-upload", "POST", t, [file |-> file]))
            /\ UNCHANGED toasts
    /\ UNCHANGED <<route, page, navs, chatVars, loginVars, kbVars, role, rows>>

\* handleUpload, from the settling of the fetch to its end (no try/catch)
handleUploadResume(t, n, resp) ==
    /\ page = "KBUploadPage"
    /\ tasks[t].handler = "handleUpload"
    /\ Awaited(t, n)
    /\ net' = Answer(n, resp)
    /\ IF resp.kind = "neterr"
       THEN /\ tasks' = Finish(t, "uncaught")
            /\ UNCHANGED toasts
       ELSE IF resp.ok
       THEN /\ tasks' = Finish(t, "done")
            /\ toasts' = Append(toasts, Toast("success", "File uploaded and indexed", t))
       ELSE IF JsonThrows(resp) \/ FieldThrows(resp)
       THEN /\ tasks' = Finish(t, "uncaught")
            /\ UNCHANGED toasts
       ELSE /\ tasks' = Finish(t, "done")
            /\ toasts' = Append(toasts, Toast("error",
                            IF resp.data # "" THEN resp.data ELSE "Unknown error", t))
    /\ UNCHANGED <<route, page, navs, chatVars, loginVars, kbVars, role, rows>>

\* handleReindex, from the click (Sync Now, disabled={!file}) to its fetch
handleReindex ==
    /\ page = "KBUploadPage"
    /\ KBUploadPageRender = "content"
    /\ file # NoFile
    /\ CanClick
    /\ tasks' = Append(tasks, Task("handleReindex", "await", NoEnv))
    /\ net' = Append(net, Request("/reindex", "POST", Len(tasks) + 1, NoEnv))
    /\ UNCHANGED <<route, page, toasts, navs, chatVars, loginVars, kbVars, role, rows>>

\* handleReindex, from the settling of the fetch to its end (no try/catch)
handleReindexResume(t, n, resp) ==
    /\ page = "KBUploadPage"
    /\ tasks[t].handler = "handleReindex"
    /\ Awaited(t, n)
    /\ net' = Answer(n, resp)
    /\ IF resp.kind = "neterr"
       THEN /\ tasks' = Finish(t, "uncaught")
            /\ UNCHANGED toasts
       ELSE /\ tasks' = Finish(t, "done")
            /\ toasts' = Append(toasts,
                    IF resp.ok THEN Toast("success", "Reindexing triggered", t)
                               ELSE Toast("error", "Failed to reindex", t))
    /\ UNCHANGED <<route, page, navs, chatVars, loginVars, kbVars, role, rows>>

\* KBUploadPage.handleLogout, from the click to `await fetch(.../logout)`
kbHandleLogout ==
    /\ page = "KBUploadPage"
    /\ KBUploadPageRender = "content"
    /\ CanClick
    /\ tasks' = Append(tasks, Task("handleLogout", "await", NoEnv))
    /\ net' = Append(net, Request("/logout", "POST", Len(tasks) + 1, NoEnv))
    /\ UNCHANGED <<route, page, toasts, navs, chatVars, loginVars, kbVars, role, rows>>

\* KBUploadPage.handleLogout, from the settling of the fetch to its end
\* (no try/catch, res.ok is not looked at)
kbHandleLogoutResume(t, n, resp) ==
    /\ page = "KBUploadPage"
    /\ tasks[t].handler = "handleLogout"
    /\ Awaited(t, n)
    /\ net' = Answer(n, resp)
    /\ IF resp.kind = "neterr"
       THEN /\ tasks' = Finish(t, "uncaught")
            /\ UNCHANGED <<toasts, navs>>
       ELSE /\ tasks' = Finish(t, "done")
            /\ toasts' = Append(toasts, Toast("success", "Logged out", t))
            /\ navs' = Append(navs, Nav("push", "/login", t))
    /\ UNCHANGED <<route, page, chatVars, loginVars, kbVars, role, rows>>

kbSettles ==
    \E n \in 1..Len(net) : LET t == net[n].task IN
        \/ \E resp \in Responses("/check-session") : fetchSessionResume(t, n, resp)
        \/ \E resp \in Responses("/kb-upload") : handleUploadResume(t, n, resp)
        \/ \E resp \in Responses("/reindex") : handleReindexResume(t, n, resp)
        \/ \E resp \in Responses("/logout") : kbHandleLogoutResume(t, n, resp)

----------------------------------------------------------------------------
(* DashboardLayout *)

\* useEffect: checkSession, up to `await fetch(.../check-session)`
layoutCheckSession ==
    /\ page = "DashboardLayout"
    /\ ~Mounted("checkSession")
    /\ tasks' = Append(tasks, Task("checkSession", "await", NoEnv))
    /\ net' = Append(net, Request("/check-session", "GET", Len(tasks) + 1, NoEnv))
    /\ UNCHANGED <<route, page, toasts, navs, chatVars, loginVars, kbVars, role, rows>>

\* checkSession of DashboardLayout and of DashboardHome, from the settling
\* of the fetch to its end (no try/catch); the two differ in the toast text
checkSessionResume(t, n, resp, text) ==
    /\ tasks[t].handler = "checkSession"
    /\ Awaited(t, n)
    /\ net' = Answer(n, resp)
    /\ IF resp.kind = "neterr"
       THEN /\ tasks' = Finish(t, "uncaught")
            /\ UNCHANGED <<role, toasts, navs>>
       ELSE IF ~resp.ok
       THEN /\ tasks' = Finish(t, "done")
            /\ toasts' = Append(toasts, Toast("error", text, t))
            /\ navs' = Append(navs, Nav("push", "/login", t))
            /\ UNCHANGED role
       ELSE IF JsonThrows(resp) \/ FieldThrows(resp)
       THEN /\ tasks' = Finish(t, "uncaught")
            /\ UNCHANGED <<role, toasts, navs>>
       ELSE IF resp.data = "logged_in"
       THEN /\ tasks' = Finish(t, "done")
            /\ role' = "logged_in"
            /\ UNCHANGED <<toasts, navs>>
       ELSE /\ tasks' = Finish(t, "done")
            /\ navs' = Append(navs, Nav("push", "/login", t))
            /\ UNCHANGED <<role, toasts>>
    /\ UNCHANGED <<route, page, chatVars, loginVars, kbVars, rows>>

layoutCheckSessionResume(t, n, resp) ==
    /\ page = "DashboardLayout"
    /\ checkSessionResume(t, n, resp, "Session expired. Redirecting...")

\* what DashboardLayout returns: the placeholder while role is null, else
\* the nav bar and its children
DashboardLayoutRender == IF role = NoRole THEN "placeholder" ELSE "content"

\* DashboardLayout.handleLogout, from the click to `await fetch(.../logout)`
layoutHandleLogout ==
    /\ page = "DashboardLayout"
    /\ DashboardLayoutRender = "content"
    /\ CanClick
    /\ tasks' = Append(tasks, Task("handleLogout", "await", NoEnv))
    /\ net' = Append(net, Request("/logout", "POST", Len(tasks) + 1, NoEnv))
    /\ UNCHANGED <<route, page, toasts, navs, chatVars, loginVars, kbVars, role, rows>>

\* DashboardLayout.handleLogout, from the settling of the fetch to its end
layoutHandleLogoutResume(t, n, resp) ==
    /\ page = "DashboardLayout"
    /\ tasks[t].handler = "handleLogout"
    /\ Awaited(t, n)
    /\ net' = Answer(n, resp)
    /\ IF resp.kind = "neterr"
       THEN /\ tasks' = Finish(t, "uncaught")
            /\ UNCHANGED <<toasts, navs>>
       ELSE /\ tasks' = Finish(t, "done")
            /\ toasts' = Append(toasts, Toast("success", "Logged out", t))
            /\ navs' = Append(navs, Nav("push", "/login", t))
    /\ UNCHANGED <<route, page, chatVars, loginVars, kbVars, role, rows>>

layoutSettles ==
    \E n \in 1..Len(net) : LET t == net[n].task IN
        \/ \E resp \in Responses("/check-session") : layoutCheckSessionResume(t, n, resp)
        \/ \E resp \in Responses("/logout") : layoutHandleLogoutResume(t, n, resp)

----------------------------------------------------------------------------
(* DashboardHome *)

\* useEffect: checkSession, up to `await fetch(.../check-session)`
homeCheckSession ==
    /\ page = "DashboardHome"
    /\ ~Mounted("checkSession")
    /\ tasks' = Append(tasks, Task("checkSession", "await", NoEnv))
    /\ net' = Append(net, Request("/check-session", "GET", Len(tasks) + 1, NoEnv))
    /\ UNCHANGED <<route, page, toasts, navs, chatVars, loginVars, kbVars, role, rows>>

homeCheckSessionResume(t, n, resp) ==
    /\ page = "DashboardHome"
    /\ checkSessionResume(t, n, resp, "Session invalid. Redirecting...")

\* what DashboardHome returns: the placeholder while role is null, else the menu
DashboardHomeRender == IF role = NoRole THEN "placeholder" ELSE "content"

\* the two menu buttons: onClick={() => router.push(to)}
homeMenu(to) ==
    /\ page = "DashboardHome"
    /\ DashboardHomeRender = "content"
    /\ CanClick
    /\ tasks' = Append(tasks, Task("menu", "done", NoEnv))
    /\ navs' = Append(navs, Nav("push", to, Len(tasks) + 1))
    /\ UNCHANGED <<route, page, net, toasts, chatVars, loginVars, kbVars, role, rows>>

homeSettles ==
    \E n \in 1..Len(net) : LET t == net[n].task IN
        \E resp \in Responses("/check-session") : homeCheckSessionResume(t, n, resp)

----------------------------------------------------------------------------
(* LeadsPage and SyncLogsPage *)

\* LeadsPage useEffect: fetch(.../leads), up to the fetch
leadsEffect ==
    /\ page = "LeadsPage"
    /\ ~Mounted("effect")
    /\ tasks' = Append(tasks, Task("effect", "await", NoEnv))
    /\ net' = Append(net, Request("/leads", "GET", Len(tasks) + 1, NoEnv))
    /\ UNCHANGED <<route, page, toasts, navs, chatVars, loginVars, kbVars, role, rows>>

\* .then((res) => res.json()).then((data) => setRows(data || [])), with no
\* catch and no look at res.ok
listResume(t, n, resp) ==
    /\ tasks[t].handler = "effect"
    /\ Awaited(t, n)
    /\ net' = Answer(n, resp)
    /\ IF resp.kind = "neterr" \/ JsonThrows(resp)
       THEN /\ tasks' = Finish(t, "uncaught")
            /\ UNCHANGED rows
       ELSE /\ tasks' = Finish(t, "done")
            /\ rows' = (IF resp.json = "null" THEN "none" ELSE resp.data)
    /\ UNCHANGED <<route, page, toasts, navs, chatVars, loginVars, kbVars, role>>

leadsResume(t, n, resp) ==
    /\ page = "LeadsPage"
    /\ listResume(t, n, resp)

\* SyncLogsPage useEffect: fetch(.../sync-logs), up to the fetch
syncLogsEffect ==
    /\ page = "SyncLogsPage"
    /\ ~Mounted("effect")
    /\ tasks' = Append(tasks, Task("effect", "await", NoEnv))
    /\ net' = Append(net, Request("/sync-logs", "GET", Len(tasks) + 1, NoEnv))
    /\ UNCHANGED <<route, page, toasts, navs, chatVars, loginVars, kbVars, role, rows>>

syncLogsResume(t, n, resp) ==
    /\ page = "SyncLogsPage"
    /\ listResume(t, n, resp)

listSettles ==
    \E n \in 1..Len(net) : LET t == net[n].task IN
        \/ \E resp \in Responses("/leads") : leadsResume(t, n, resp)
        \/ \E resp \in Responses("/sync-logs") : syncLogsResume(t, n, resp)

----------------------------------------------------------------------------
Init ==
    /\ page \in Pages
    /\ tasks = << >>
    /\ net = << >>
    /\ toasts = << >>
    /\ navs = << >>
    /\ query = << >>
    /\ messages = << >>
    /\ sessionId \in (IF page = "ChatPage" THEN SessionIds ELSE {"unused"})
    /\ history = << >>
    /\ username = ""
    /\ password = ""
    /\ file = NoFile
    /\ loading = TRUE
    /\ role = (IF page = "KBUploadPage" THEN "general" ELSE NoRole)
    /\ rows = "none"
    /\ route = << >>

Next ==
    \/ \E q \in QueryInputs : setQuery(q)
    \/ handleSend
    \/ chatSettles
    \/ \E u \in Usernames : setUsername(u)
    \/ \E p \in Passwords : setPassword(p)
    \/ handleLogin
    \/ loginSettles
    \/ fetchSession
    \/ \E f \in Files \cup {NoFile} : setFile(f)
    \/ handleUpload
    \/ handleReindex
    \/ kbHandleLogout
    \/ kbSettles
    \/ layoutCheckSession
    \/ layoutHandleLogout
    \/ layoutSettles
    \/ homeCheckSession
    \/ \E to \in {"/chat", "/dashboard/kb-upload"} : homeMenu(to)
    \/ homeSettles
    \/ leadsEffect
    \/ syncLogsEffect
    \/ listSettles

Spec == Init /\ [][Next]_vars

----------------------------------------------------------------------------
(* The /api/chat route *)

\* a JavaScript value that may be undefined, null or a string
Undefined   == [tag |-> "undefined", text |-> ""]
Null        == [tag |-> "null", text |-> ""]
String(txt) == [tag |-> "string", text |-> txt]

\* `v || ''` on such a value
Falsy(v) == v.tag # "string" \/ v.text = ""

\* a message of the request: null, or an object with role, content and
\* possibly more (name)
NullMsg == [null |-> TRUE, role |-> "", content |-> "", name |-> ""]
Msg(r, c, nm) == [null |-> FALSE, role |-> r, content |-> c, name |-> nm]

\* the body of a request: not JSON, JSON null, or an object whose messages
\* field is absent, null, not an array, or an array
Body(json, tag, items) == [json |-> json, messages |-> [tag |-> tag, items |-> items]]

RequestBodies ==
    { Body("invalid", "absent", << >>),
      Body("null", "absent", << >>),
      Body("object", "absent", << >>),
      Body("object", "null", << >>),
      Body("object", "string", << >>),
      Body("object", "array", << >>),
      Body("object", "array", <<Msg("user", "hi", "")>>),
      Body("object", "array", <<Msg("user", "hi", "bob"), NullMsg>>),
      Body("object", "array", <<Msg("system", "be brief", ""), Msg("user", "hi", "bob")>>) }

\* a choice of a completion: without message, or with a message whose
\* content is undefined, null or a string
Choice(hasMessage, content) == [hasMessage |-> hasMessage, content |-> content]

\* what groq.chat.completions.create hands back: a throw, or a completion
\* whose choices field is absent or an array
NoCompletion == [kind |-> "pending", hasChoices |-> FALSE, choices |-> << >>]
Throws       == [kind |-> "throws",  hasChoices |-> FALSE, choices |-> << >>]
Completion(hasChoices, choices) ==
    [kind |-> "value", hasChoices |-> hasChoices, choices |-> choices]

Completions ==
    { Throws,
      Completion(FALSE, << >>),
      Completion(TRUE, << >>),
      Completion(TRUE, <<Choice(FALSE, Undefined)>>),
      Completion(TRUE, <<Choice(TRUE, Undefined)>>),
      Completion(TRUE, <<Choice(TRUE, Null)>>),
      Completion(TRUE, <<Choice(TRUE, String(""))>>),
      Completion(TRUE, <<Choice(TRUE, String("hello"))>>),
      Completion(TRUE, <<Choice(TRUE, String("hello")), Choice(TRUE, String("bye"))>>),
      Completion(TRUE, <<Choice(TRUE, String("")), Choice(TRUE, String("bye"))>>) }

\* NextResponse.json(body) and NextResponse.json(body, { status: 500 })
ReplyJson(content) ==
    [status |-> 200, role |-> "assistant", content |-> content, error |-> ""]
ChatFailed ==
    [status |-> 500, role |-> "", content |-> "", error |-> "Chat failed"]

NotForwarded == [sent |-> FALSE, messages |-> << >>, model |-> ""]

Invocation(body, pc, forwarded, responses) ==
    [body |-> body, pc |-> pc, forwarded |-> forwarded,
     completion |-> NoCompletion, responses |-> responses]

\* const messages = body.messages || []
MessagesOrEmpty(body) ==
    IF body.messages.tag \in {"absent", "null"}
    THEN [tag |-> "array", items |-> << >>]
    ELSE body.messages

\* messages.map((msg) => ({ role: msg.role, content: msg.content }))
groqMessages(items) ==
    [i \in 1..Len(items) |-> [role |-> items[i].role, content |-> items[i].content]]

\* the lines of POST before the completion call throw: req.json() rejects,
\* body is null, messages is not an array, or a message is null
ThrowsBeforeCall(body) ==
    \/ body.json \in {"invalid", "null"}
    \/ MessagesOrEmpty(body).tag # "array"
    \/ \E i \in 1..Len(body.messages.items) : body.messages.items[i].null

\* chatCompletion.choices?.[0]?.message?.content || ''
reply(completion) ==
    IF ~completion.hasChoices \/ completion.choices = << >> THEN ""
    ELSE LET first == completion.choices[1] IN
         IF ~first.hasMessage \/ Falsy(first.content) THEN ""
         ELSE first.content.text

\* POST, from the request to `await groq.chat.completions.create(...)`
POST(body) ==
    /\ page = "/api/chat"
    /\ Len(route) < MaxTasks
    /\ IF ThrowsBeforeCall(body)
       THEN route' = Append(route, Invocation(body, "done", NotForwarded, <<ChatFailed>>))
       ELSE route' = Append(route, Invocation(body, "await",
                        [sent |-> TRUE,
                         messages |-> groqMessages(MessagesOrEmpty(body).items),
                         model |-> "mixtral-8x7b-32768"],
                        << >>))
    /\ UNCHANGED clientVars

\* POSTResume that reads chatCompletion.choices[0].message.content without
\* the optional chaining
POSTResume_NoOptionalChaining(i, completion) ==
    /\ page = "/api/chat"
    /\ route[i].pc = "await"
    /\ route' = [route EXCEPT
            ![i].pc = "done",
            ![i].completion = completion,
            ![i].responses =
                IF completion.kind = "throws" THEN <<ChatFailed>>
                ELSE IF ~completion.hasChoices \/ completion.choices = << >>
                        \/ ~completion.choices[1].hasMessage
                THEN <<ChatFailed>>
                ELSE IF Falsy(completion.choices[1].content)
                THEN <<ReplyJson("")>>
                ELSE <<ReplyJson(completion.choices[1].content.text)>>]
    /\ UNCHANGED clientVars

\* POST, from the settling of the completion call to its return
POSTResume(i, completion) ==
    /\ page = "/api/chat"
    /\ route[i].pc = "await"
    /\ route' = [route EXCEPT
            ![i].pc = "done",
            ![i].completion = completion,
            ![i].responses =
                IF completion.kind = "throws" THEN <<ChatFailed>>
                ELSE <<ReplyJson(reply(completion))>>]
    /\ UNCHANGED clientVars

InitRoute ==
    /\ page = "/api/chat"
    /\ tasks = << >>
    /\ net = << >>
    /\ toasts = << >>
    /\ navs = << >>
    /\ query = << >>
    /\ messages = << >>
    /\ sessionId = "unused"
    /\ history = << >>
    /\ username = ""
    /\ password = ""
    /\ file = NoFile
    /\ loading = TRUE
    /\ role = NoRole
    /\ rows = "none"
    /\ route = << >>

NextRoute ==
    \/ \E body \in RequestBodies : POST(body)
    \/ \E i \in 1..Len(route) : \E completion \in Completions : POSTResume(i, completion)

SpecRoute == InitRoute /\ [][NextRoute]_vars

----------------------------------------------------------------------------
(* ChatPage: what the claims speak of *)

ChatRequests == {n \in 1..Len(net) : net[n].endpoint = "/chat"}
Outstanding  == {n \in ChatRequests : net[n].resp.kind = "pending"}

UserMessage(q) == [role |-> "user", content |-> q]
BotMessage(c)  == [role |-> "bot", content |-> c]

Count(seq, r) == Cardinality({i \in 1..Len(seq) : seq[i].role = r})

IsPrefix(s, u) == Len(s) <= Len(u) /\ SubSeq(u, 1, Len(s)) = s

\* the [query, result] exchanges among the first k answers, in the order
\* the answers arrived
RECURSIVE Exchanges(_)
Exchanges(k) ==
    IF k = 0 THEN << >>
    ELSE LET m == CHOOSE m \in 1..Len(net) : net[m].order = k IN
         IF net[m].endpoint = "/chat" /\ Success(net[m].resp)
         THEN Append(Exchanges(k - 1), <<net[m].body.query, net[m].resp.data>>)
         ELSE Exchanges(k - 1)

\* request n is answered in this step
Settles(n) == net[n].resp.kind = "pending" /\ net'[n].resp.kind # "pending"

\* C3: a Send with a non-blank query appends the user message {user, query}
\* to messages and issues the request carrying that query; when the call
\* succeeds the step that receives the answer appends {bot, result} to
\* messages and exactly the pair [query, result] to the end of history; no
\* step removes or changes an earlier entry of messages or history.
C3_SendAppendsExchange ==
    [][ page = "ChatPage" =>
        /\ IsPrefix(messages, messages') /\ IsPrefix(history, history')
        /\ (Len(tasks') > Len(tasks) /\ trim(query) # << >>) =>
              /\ Len(net') = Len(net) + 1
              /\ net'[Len(net')].endpoint = "/chat"
              /\ net'[Len(net')].resp.kind = "pending"
              /\ net'[Len(net')].body.query = query
              /\ messages' = Append(messages, UserMessage(query))
              /\ history' = history
        /\ \A n \in 1..Len(net) :
              (Settles(n) /\ Success(net'[n].resp)) =>
                  /\ messages' = Append(messages, BotMessage(net'[n].resp.data))
                  /\ history' = Append(history, <<net[n].body.query, net'[n].resp.data>>)
                  /\ \E i \in 1..Len(messages) :
                        messages[i] = UserMessage(net[n].body.query)
      ]_vars

\* two Sends were in flight together and both succeeded: history holds both
\* exchanges and messages all four entries
C3_Witness ==
    /\ page = "ChatPage"
    /\ Len(net) = 2 /\ net[2].after = 0
    /\ Success(net[1].resp) /\ Success(net[2].resp)
    /\ Len(history) = 2 /\ Len(messages) = 4

C9_FailureLeavesHistory ==
    [][ page = "ChatPage" =>
        /\ \A n \in 1..Len(net) :
              (Settles(n) /\ ~Success(net'[n].resp)) =>
                  /\ history' = history
                  /\ messages' = Append(messages, BotMessage(ErrorFromServer))
                  /\ \E i \in 1..Len(messages) :
                        messages[i] = UserMessage(net[n].body.query)
        /\ \A n \in 1..Len(net') :
              LET sent == net'[n].body.chat_history IN
              /\ Len(sent) = Cardinality({m \in 1..Len(net') :
                                /\ Success(net'[m].resp)
                                /\ net'[m].order <= net'[n].after})
              /\ \A i \in 1..Len(sent) : \E m \in 1..Len(net') :
                    /\ Success(net'[m].resp)
                    /\ sent[i] = <<net'[m].body.query, net'[m].resp.data>>
      ]_vars

\* a Send failed and a later Send was issued: its chat_history is empty
C9_Witness ==
    /\ page = "ChatPage"
    /\ Len(net) = 2
    /\ Failed(net[1].resp) /\ net[2].after = 1
    /\ messages[2] = BotMessage(ErrorFromServer)
    /\ history = << >>

\* C10: bot messages never outnumber user messages; the difference is the
\* number of outstanding chat requests; history is never longer than the
\* number of bot messages; with nothing outstanding the counts are equal.
C10_MessageCounts ==
    page = "ChatPage" =>
        /\ Count(messages, "bot") <= Count(messages, "user")
        /\ Count(messages, "user") = Count(messages, "bot") + Cardinality(Outstanding)
        /\ Len(history) <= Count(messages, "bot")
        /\ (Outstanding = {} => Count(messages, "user") = Count(messages, "bot"))

\* one Send has failed and another is outstanding
C10_Witness ==
    /\ page = "ChatPage"
    /\ Count(messages, "user") = 2 /\ Count(messages, "bot") = 1
    /\ Cardinality(Outstanding) = 1
    /\ Len(history) = 0

----------------------------------------------------------------------------
(* The session gate, the calls and their errors *)

RequestsOf(t) == {n \in 1..Len(net) : net[n].task = t}
ToastsOf(t, level) == {i \in 1..Len(toasts) : toasts[i].task = t /\ toasts[i].level = level}
NavsOf(t, to) == {i \in 1..Len(navs) : navs[i].task = t /\ navs[i].to = to}
Ended(t) == tasks[t].pc \in {"done", "uncaught"}

SessionChecks == {n \in 1..Len(net) : net[n].endpoint = "/check-session"}

\* what the mounted gated component returns
Render ==
    CASE page = "KBUploadPage"    -> KBUploadPageRender
      [] page = "DashboardLayout" -> DashboardLayoutRender
      [] page = "DashboardHome"   -> DashboardHomeRender
      [] OTHER                    -> "content"

\* C1: once the session check of a gated component has ended, and the call
\* failed (non-2xx or a rejected fetch) or returned a role other than
\* 'logged_in', the component has navigated to /login.
C1_FailedCheckRedirects ==
    page \in GatedPages =>
        \A n \in SessionChecks :
            (/\ Ended(net[n].task)
             /\ \/ Failed(net[n].resp)
                \/ (net[n].resp.json = "object" /\ net[n].resp.data # "logged_in"))
            => NavsOf(net[n].task, "/login") # {}

\* C2: a gated component shows its content only if its session check has
\* completed and returned role 'logged_in'; otherwise the placeholder.
C2_ContentOnlyWhenLoggedIn ==
    page \in GatedPages =>
        (Render = "content" =>
            \E n \in SessionChecks :
                /\ net[n].resp.kind = "http"
                /\ net[n].resp.json = "object"
                /\ net[n].resp.data = "logged_in")

\* the user-facing error notification of a handler invocation: an error
\* toast, or on the chat page the bot message 'Error from server.'
ErrorShown(t) ==
    \/ ToastsOf(t, "error") # {}
    \/ /\ page = "ChatPage"
       /\ \E i \in 1..Len(messages) : messages[i] = BotMessage(ErrorFromServer)

\* C5: every call that got a non-2xx answer or was rejected by the network
\* has, once its handler has ended, been caught (no uncaught error), shown
\* an error notification and reported no success.
C5_EveryFailureNotified ==
    \A n \in 1..Len(net) :
        (Failed(net[n].resp) /\ Ended(net[n].task)) =>
            /\ tasks[net[n].task].pc # "uncaught"
            /\ ErrorShown(net[n].task)
            /\ ToastsOf(net[n].task, "success") = {}

\* C6: no handler invocation and no mount effect has issued more than one
\* request (so none is issued again after a failure), and the mount effect
\* has run at most once.
C6_OneRequestPerAction ==
    /\ \A t \in 1..Len(tasks) : Cardinality(RequestsOf(t)) <= 1
    /\ Cardinality({t \in 1..Len(tasks) :
            tasks[t].handler \in {"fetchSession", "checkSession", "effect"}}) <= 1
    /\ Len(net) <= Len(tasks)

\* a request has failed, its handler has ended, and that handler issued
\* exactly that one request; a later user action has issued its own
C6_Witness ==
    /\ Len(net) >= 2
    /\ \E n \in 1..Len(net) :
          /\ Failed(net[n].resp)
          /\ Ended(net[n].task)
          /\ RequestsOf(net[n].task) = {n}

UploadTasks == {t \in 1..Len(tasks) : tasks[t].handler = "handleUpload"}

\* C7: an Upload that has ended either issued no request and showed an
\* error toast (no file selected), or issued exactly one multipart POST
\* /kb-upload carrying a file and showed the success toast if and only if
\* the answer was 2xx, and otherwise a failure toast.
C7_UploadToasts ==
    page = "KBUploadPage" =>
        \A t \in UploadTasks : Ended(t) =>
            \/ /\ RequestsOf(t) = {}
               /\ ToastsOf(t, "error") # {}
            \/ \E n \in RequestsOf(t) :
                  /\ RequestsOf(t) = {n}
                  /\ net[n].endpoint = "/kb-upload" /\ net[n].method = "POST"
                  /\ net[n].body.file \in Files
                  /\ (ToastsOf(t, "success") # {}) <=> (net[n].resp.kind = "http" /\ net[n].resp.ok)
                  /\ ~(net[n].resp.kind = "http" /\ net[n].resp.ok) => ToastsOf(t, "error") # {}

\* C8: a Login click with an empty username or password issues no request;
\* any other click issues exactly one POST /login with the credentials; the
\* step that receives a 2xx answer navigates to /dashboard/kb-upload; the
\* step that receives a non-2xx answer or a thrown error navigates nowhere,
\* shows one error toast and leaves username and password as they were.
C8_LoginOutcome ==
    [][ page = "LoginPage" =>
        /\ (Len(tasks') > Len(tasks)) =>
              IF username = "" \/ password = ""
              THEN net' = net
              ELSE /\ Len(net') = Len(net) + 1
                   /\ SubSeq(net', 1, Len(net)) = net
                   /\ net'[Len(net')].endpoint = "/login"
                   /\ net'[Len(net')].method = "POST"
                   /\ net'[Len(net')].body = [username |-> username, password |-> password]
        /\ \A n \in 1..Len(net) : Settles(n) =>
              /\ Len(net') = Len(net)
              /\ IF net'[n].resp.kind = "http" /\ net'[n].resp.ok
                 THEN navs' = Append(navs, Nav("replace", "/dashboard/kb-upload", net[n].task))
                 ELSE /\ navs' = navs
                      /\ Len(toasts') = Len(toasts) + 1
                      /\ toasts'[Len(toasts')].level = "error"
                      /\ SubSeq(toasts', 1, Len(toasts)) = toasts
                      /\ username' = username
                      /\ password' = password
      ]_vars

\* a login was answered non-2xx: an error toast, no navigation, and the
\* credentials are still in the form
C8_Witness ==
    /\ page = "LoginPage"
    /\ \E n \in 1..Len(net) :
          /\ net[n].resp.kind = "http" /\ ~net[n].resp.ok
          /\ ToastsOf(net[n].task, "error") # {}
    /\ navs = << >>
    /\ username = "admin" /\ password = "secret"

\* C11: a Send click while the query is empty or whitespace-only issues no
\* network request and leaves messages, history, query and the session id
\* as they were.
C11_BlankSendDoesNothing ==
    [][ (page = "ChatPage" /\ Len(tasks') > Len(tasks) /\ trim(query) = << >>) =>
            /\ net' = net
            /\ messages' = messages
            /\ history' = history
            /\ query' = query
            /\ sessionId' = sessionId
      ]_vars

\* Send was clicked on a whitespace-only query after an exchange had
\* succeeded: the click is on record, it issued nothing, and messages and
\* history still hold that one exchange
C11_Witness ==
    /\ page = "ChatPage"
    /\ query = <<" ">>
    /\ Len(tasks) = 2 /\ tasks[2].handler = "handleSend" /\ tasks[2].pc = "done"
    /\ RequestsOf(2) = {}
    /\ Len(net) = 1 /\ Success(net[1].resp)
    /\ Len(messages) = 2 /\ Len(history) = 1

----------------------------------------------------------------------------
(* The /api/chat route: what the claim speaks of *)

\* C12: an invocation of POST that has not returned has sent no response
\* and one that has returned has sent exactly one: status 200 with
\* {role: 'assistant', content}, content being the text of the first
\* choice of the completion, or '' when there is no choice or no content;
\* status 500 with {error: 'Chat failed'} whenever the request body does
\* not parse or the completion call throws.  A body without a messages
\* field is forwarded with an empty message list and answered like any
\* other.
C12_OneResponse ==
    page = "/api/chat" =>
        \A i \in 1..Len(route) :
            LET inv == route[i]
                c   == inv.completion
                has == c.kind = "value" /\ c.hasChoices /\ c.choices # << >>
                      /\ c.choices[1].hasMessage
                      /\ c.choices[1].content.tag = "string"
            IN
            /\ inv.pc # "done" => inv.responses = << >>
            /\ inv.pc = "done" =>
                  /\ Len(inv.responses) = 1
                  /\ inv.responses[1].status \in {200, 500}
                  /\ (inv.body.json = "invalid" \/ c.kind = "throws") =>
                        /\ inv.responses[1].status = 500
                        /\ inv.responses[1].error = "Chat failed"
                  /\ inv.responses[1].status = 500 =>
                        inv.responses[1].error = "Chat failed"
                  /\ inv.responses[1].status = 200 =>
                        /\ inv.responses[1].role = "assistant"
                        /\ inv.responses[1].content =
                              (IF has THEN c.choices[1].content.text ELSE "")
                  /\ (c.kind = "value" /\ inv.forwarded.sent) =>
                        inv.responses[1].status = 200
            /\ (inv.body.json = "object" /\ inv.body.messages.tag = "absent") =>
                  /\ inv.forwarded.sent
                  /\ inv.forwarded.messages = << >>

\* a body without messages was forwarded with an empty list; the completion
\* had no choice and the route answered 200 with empty content
C12_Witness ==
    /\ page = "/api/chat"
    /\ \E i \in 1..Len(route) :
          /\ route[i].body.json = "object"
          /\ route[i].body.messages.tag = "absent"
          /\ route[i].forwarded.messages = << >>
          /\ route[i].completion.kind = "value"
          /\ route[i].completion.choices = << >>
          /\ route[i].responses = <<ReplyJson("")>>
====
